---- MODULE Spec2Model ----
(***************************************************************************)
(* plane-tracker, src/src/App.tsx: the App component's polling effect and  *)
(* the reconciliation of each polled snapshot batch into the tracked       *)
(* aircraft list (planes) and the per-aircraft trails (planeTrails).       *)
(*                                                                         *)
(* JavaScript values.  A numeric field of a decoded JSON object is either  *)
(* a finite number, Infinity (JSON.parse("1e999")), or undefined (the key  *)
(* is absent); the three are told apart by a tag so that reading a missing *)
(* field is not confused with reading a number.  Latitudes and longitudes  *)
(* are written in tenths of a degree (400 is 40.0).                        *)
(*                                                                         *)
(* React.  The two state setters of fetchData are called back to back      *)
(* after an await and are applied in one render (automatic batching), so   *)
(* one poll's reconciliation is one step.  An updater function runs when   *)
(* React processes the queue, not inside fetchData's try block: what it    *)
(* throws is not caught at line 194, it fails the render, and with no      *)
(* error boundary in the tree React unmounts the whole application, which  *)
(* also runs the effect's cleanup (line 201).                              *)
(***************************************************************************)
EXTENDS Integers, Sequences, FiniteSets, TLC

VARIABLES
    planes,          \* useState<Plane[]>, line 124
    planeTrails,     \* useState<Record<string, [number, number][]>>, line 125
    updateInterval,  \* useState<number>(500), line 129
    phase,           \* "mounting" (rendered, effects not run) | "running" | "crashed"
    timers,          \* the setInterval handles that are scheduled
    issued,          \* how many times fetchData has been called
    inflight,        \* the fetchData calls suspended at an await (lines 157-158)
    log,             \* history: every batch applied, with the request it answered and the state it met
    selectedFlight,  \* useState<string | null>(null), line 126
    userLocation,    \* useState<[number, number] | null>(null), line 128
    lastClicked      \* history: the flight label of the aircraft whose marker or sidebar entry was clicked last

(* the state the polling effect neither reads nor writes *)
ui == <<selectedFlight, userLocation, lastClicked>>

vars == <<planes, planeTrails, updateInterval, phase, timers, issued, inflight, log,
          selectedFlight, userLocation, lastClicked>>

----------------------------------------------------------------------------
(* Bounds *)

MaxRequests == 3        \* fetchData calls in one run
MaxTrailPoints == 4     \* trail points (over all trails) in one run

(* snapshots in one response: a full batch can be applied twice *)
MaxBatchLen == MaxTrailPoints \div 2

DefaultInterval == 500     \* useState<number>(500), line 129
MinInterval == 100         \* value >= 100, line 135

----------------------------------------------------------------------------
(* JavaScript numbers as decoded from JSON *)

Num(v) == [kind |-> "number", val |-> v]
Infinity == [kind |-> "Infinity", val |-> 0]
Undefined == [kind |-> "undefined", val |-> 0]

(* a finite number that is no integer, strictly between v and v + 1 *)
NonInteger(v) == [kind |-> "noninteger", val |-> v]
NaN == [kind |-> "NaN", val |-> 0]

IsFinite(x) == x.kind = "number"

(* null, and a string as the sequence of its characters *)
Null == [kind |-> "null", val |-> <<>>]
Str(chars) == [kind |-> "string", val |-> chars]

(* The feed: aircraft A1 in two well-formed states, aircraft B2 in a       *)
(* malformed one (lat not finite, speed missing).                          *)
Snap(h, f, la, lo, al, tr, sp) ==
    [hex |-> h, flight |-> f, lat |-> la, lon |-> lo,
     altitude |-> al, track |-> tr, speed |-> sp]

SnapA1 == Snap("A1", <<"U", "A", "L", "1", " ">>, Num(400), Num(-750), Num(10000), Num(90), Num(400))
SnapA1Moved == Snap("A1", <<"U", "A", "L", "1", " ">>, Num(401), Num(-749), Num(11000), Num(95), Num(410))
SnapB2Malformed == Snap("B2", <<" ", "D", "A", "L", "2">>, Infinity, Num(-752), Num(30000), Num(270), Undefined)

Snapshots == {SnapA1, SnapA1Moved, SnapB2Malformed}

Batches == UNION {[1..n -> Snapshots] : n \in 0..MaxBatchLen}

----------------------------------------------------------------------------
(* JavaScript Map: entries in insertion order, one entry per key *)

MapHas(m, k) == \E i \in 1..Len(m) : m[i].key = k

(* a bug: a list pushed to, where the code keys a Map *)
MapSetAppend(m, k, v) == Append(m, [key |-> k, value |-> v])

(* planeMap.set(k, v) *)
MapSet(m, k, v) ==
    IF MapHas(m, k)
    THEN [i \in 1..Len(m) |-> IF m[i].key = k THEN [key |-> k, value |-> v] ELSE m[i]]
    ELSE Append(m, [key |-> k, value |-> v])

RECURSIVE MapOf(_)
MapOf(entries) ==
    IF entries = <<>> THEN <<>>
    ELSE LET n == Len(entries)
         IN MapSet(MapOf(SubSeq(entries, 1, n - 1)), entries[n].key, entries[n].value)

MapValues(m) == [i \in 1..Len(m) |-> m[i].value]

(* { ...plane, active: b } *)
Spread(plane, b) ==
    [f \in (DOMAIN plane) \cup {"active"} |-> IF f = "active" THEN b ELSE plane[f]]

HexSet(data) == {data[i].hex : i \in 1..Len(data)}

----------------------------------------------------------------------------
(* setPlanes updater, lines 160-177 *)

PlaneEntries(prevPlanes) ==
    [i \in 1..Len(prevPlanes) |-> [key |-> prevPlanes[i].hex, value |-> prevPlanes[i]]]

(* a bug: an aircraft already tracked is only flagged active again *)
RECURSIVE UpsertAllKeepExisting(_, _)
UpsertAllKeepExisting(planeMap, data) ==
    IF data = <<>> THEN planeMap
    ELSE LET n == Len(data)
             m == UpsertAllKeepExisting(planeMap, SubSeq(data, 1, n - 1))
             old == {m[i].value : i \in {j \in 1..Len(m) : m[j].key = data[n].hex}}
         IN IF old = {} THEN MapSet(m, data[n].hex, Spread(data[n], TRUE))
            ELSE MapSet(m, data[n].hex, Spread(CHOOSE o \in old : TRUE, TRUE))

(* a bug: of the snapshots of one batch with the same hex the first is kept *)
RECURSIVE UpsertAllFirstWins(_, _)
UpsertAllFirstWins(planeMap, data) ==
    IF data = <<>> THEN planeMap
    ELSE LET n == Len(data)
             m == UpsertAllFirstWins(planeMap, SubSeq(data, 1, n - 1))
         IN IF data[n].hex \in HexSet(SubSeq(data, 1, n - 1)) THEN m
            ELSE MapSet(m, data[n].hex, Spread(data[n], TRUE))

(* data.forEach((plane) => planeMap.set(plane.hex, { ...plane, active: true })) *)
RECURSIVE UpsertAll(_, _)
UpsertAll(planeMap, data) ==
    IF data = <<>> THEN planeMap
    ELSE LET n == Len(data)
         IN MapSet(UpsertAll(planeMap, SubSeq(data, 1, n - 1)),
                   data[n].hex, Spread(data[n], TRUE))

(* a bug: the pass of lines 170-174 left out *)
MarkInactiveOmitted(planeMap, dataHexSet) == planeMap

(* planeMap.forEach((plane, hex) => { if (!dataHexSet.has(hex)) ... active: false }) *)
MarkInactive(planeMap, dataHexSet) ==
    [i \in 1..Len(planeMap) |->
        IF planeMap[i].key \notin dataHexSet
        THEN [key |-> planeMap[i].key, value |-> Spread(planeMap[i].value, FALSE)]
        ELSE planeMap[i]]

(* a bug: the tracked list replaced by the latest batch *)
UpdatePlanesReplace(prevPlanes, data) ==
    [i \in 1..Len(data) |-> Spread(data[i], TRUE)]

UpdatePlanes(prevPlanes, data) ==
    LET dataHexSet == HexSet(data)
        planeMap == MapOf(PlaneEntries(prevPlanes))
    IN MapValues(MarkInactive(UpsertAll(planeMap, data), dataHexSet))

----------------------------------------------------------------------------
(* setPlaneTrails updater, lines 180-193 *)

NoTrails == [h \in {} |-> <<>>]

TrailOf(trails, key) == IF key \in DOMAIN trails THEN trails[key] ELSE <<>>

PutTrail(trails, key, trail) ==
    [h \in (DOMAIN trails) \cup {key} |-> IF h = key THEN trail ELSE trails[h]]

(* a bug: a point equal to the trail's last point is not added again *)
AppendPointDedup(updated, plane) ==
    LET old == TrailOf(updated, plane.hex)
        newPoint == <<plane.lat, plane.lon>>
    IN IF old # <<>> /\ old[Len(old)] = newPoint
       THEN updated
       ELSE PutTrail(updated, plane.hex, Append(old, newPoint))

(* a bug: the cap the comment of line 189 announces, here at 2 points *)
AppendPointCapped(updated, plane) ==
    LET trail == Append(TrailOf(updated, plane.hex), <<plane.lat, plane.lon>>)
    IN PutTrail(updated, plane.hex,
                IF Len(trail) > 2 THEN SubSeq(trail, Len(trail) - 1, Len(trail)) ELSE trail)

(* the body of data.forEach, lines 183-190 *)
AppendPoint(updated, plane) ==
    LET key == plane.hex
        newPoint == <<plane.lat, plane.lon>>
        trail == Append(TrailOf(updated, key), newPoint)
    IN PutTrail(updated, key, trail)

(* a bug: one point per aircraft of the batch, whatever the batch repeats *)
RECURSIVE UpdateTrailsOncePerHex(_, _)
UpdateTrailsOncePerHex(prev, data) ==
    IF data = <<>> THEN prev
    ELSE LET n == Len(data)
             before == UpdateTrailsOncePerHex(prev, SubSeq(data, 1, n - 1))
         IN IF data[n].hex \in HexSet(SubSeq(data, 1, n - 1))
            THEN before
            ELSE PutTrail(before, data[n].hex,
                          Append(TrailOf(before, data[n].hex), <<data[n].lat, data[n].lon>>))

RECURSIVE UpdateTrails(_, _)
UpdateTrails(prev, data) ==
    IF data = <<>> THEN prev
    ELSE LET n == Len(data)
         IN AppendPoint(UpdateTrails(prev, SubSeq(data, 1, n - 1)), data[n])

RECURSIVE SumLen(_, _)
SumLen(trails, keys) ==
    IF keys = {} THEN 0
    ELSE LET k == CHOOSE x \in keys : TRUE
         IN Len(trails[k]) + SumLen(trails, keys \ {k})

TotalPoints(trails) == SumLen(trails, DOMAIN trails)

----------------------------------------------------------------------------
(* The component *)

Init ==
    /\ planes = <<>>
    /\ planeTrails = NoTrails
    /\ updateInterval = Num(DefaultInterval)
    /\ phase = "mounting"
    /\ timers = {}
    /\ issued = 0
    /\ inflight = {}
    /\ log = <<>>
    /\ selectedFlight = Null
    /\ userLocation = Null
    /\ lastClicked = Null

(* what the history keeps of an applied batch *)
Entry(id, data) ==
    [id |-> id, data |-> data, planes0 |-> planes, trails0 |-> planeTrails]

(* a bug: the call of line 199 left out, the first request waits for a tick *)
PollEffectNoFetch ==
    /\ phase = "mounting"
    /\ timers' = timers \cup {[handle |-> Cardinality(timers) + 1, period |-> updateInterval]}
    /\ phase' = "running"
    /\ UNCHANGED <<planes, planeTrails, updateInterval, issued, inflight, log>>
    /\ UNCHANGED ui

(* the effect of lines 154-202 on mount: fetchData(), then setInterval *)
PollEffect ==
    /\ phase = "mounting"
    /\ issued < MaxRequests
    /\ issued' = issued + 1
    /\ inflight' = inflight \cup {issued + 1}
    /\ timers' = timers \cup {[handle |-> Cardinality(timers) + 1, period |-> updateInterval]}
    /\ phase' = "running"
    /\ UNCHANGED <<planes, planeTrails, updateInterval, log>>
    /\ UNCHANGED ui

(* a scheduled interval fires: fetchData() up to its first await *)
Tick(t) ==
    /\ t \in timers
    /\ issued < MaxRequests
    /\ issued' = issued + 1
    /\ inflight' = inflight \cup {issued + 1}
    /\ UNCHANGED <<planes, planeTrails, updateInterval, phase, timers, log>>
    /\ UNCHANGED ui

(* await fetch(...) rejects (line 157): caught at line 194 *)
FetchRejects(id) ==
    /\ phase = "running"
    /\ id \in inflight
    /\ inflight' = inflight \ {id}
    /\ UNCHANGED <<planes, planeTrails, updateInterval, phase, timers, issued, log>>
    /\ UNCHANGED ui

(* await res.json() rejects (line 158): caught at line 194 *)
JsonRejects(id) ==
    /\ phase = "running"
    /\ id \in inflight
    /\ inflight' = inflight \ {id}
    /\ UNCHANGED <<planes, planeTrails, updateInterval, phase, timers, issued, log>>
    /\ UNCHANGED ui

(* res.json() yields a value that is no array (null, an object, a number):  *)
(* both setters are called with their updaters; data.map (line 161) throws *)
(* when React runs the first one, outside the try block.  The render       *)
(* fails, the tree is unmounted and the cleanup of line 201 runs.  The     *)
(* component's state is gone with it; planes and planeTrails keep the last *)
(* rendered values here.                                                   *)
NotAnArray(id) ==
    /\ phase = "running"
    /\ id \in inflight
    /\ inflight' = inflight \ {id}
    /\ phase' = "crashed"
    /\ timers' = {}
    /\ UNCHANGED <<planes, planeTrails, updateInterval, issued, log>>
    /\ UNCHANGED ui

(* a bug: a response is dropped when a request issued later was applied *)
UpdateDropStale(id, data) ==
    /\ phase = "running"
    /\ id \in inflight
    /\ TotalPoints(planeTrails) + Len(data) <= MaxTrailPoints
    /\ inflight' = inflight \ {id}
    /\ IF \E j \in 1..Len(log) : log[j].id > id
       THEN UNCHANGED <<planes, planeTrails>>
       ELSE /\ planes' = UpdatePlanes(planes, data)
            /\ planeTrails' = UpdateTrails(planeTrails, data)
    /\ log' = Append(log, Entry(id, data))
    /\ UNCHANGED <<updateInterval, phase, timers, issued>>
    /\ UNCHANGED ui

(* a bug: the two state updates not batched, the trails left for later *)
UpdateTrailsLater(id, data) ==
    /\ phase = "running"
    /\ id \in inflight
    /\ TotalPoints(planeTrails) + Len(data) <= MaxTrailPoints
    /\ inflight' = inflight \ {id}
    /\ planes' = UpdatePlanes(planes, data)
    /\ log' = Append(log, Entry(id, data))
    /\ UNCHANGED <<planeTrails, updateInterval, phase, timers, issued>>
    /\ UNCHANGED ui

(* res.json() yields an array: lines 160-193 *)
Update(id, data) ==
    /\ phase = "running"
    /\ id \in inflight
    /\ TotalPoints(planeTrails) + Len(data) <= MaxTrailPoints
    /\ inflight' = inflight \ {id}
    /\ planes' = UpdatePlanes(planes, data)
    /\ planeTrails' = UpdateTrails(planeTrails, data)
    /\ log' = Append(log, Entry(id, data))
    /\ UNCHANGED <<updateInterval, phase, timers, issued>>
    /\ UNCHANGED ui

(* a request completes after the tree was unmounted: a rejection is logged *)
(* by the catch, a state update of an unmounted component is dropped       *)
Discard(id) ==
    /\ phase = "crashed"
    /\ id \in inflight
    /\ inflight' = inflight \ {id}
    /\ UNCHANGED <<planes, planeTrails, updateInterval, phase, timers, issued, log>>
    /\ UNCHANGED ui

----------------------------------------------------------------------------
(* The update-frequency control, lines 133-138 and 223-237 *)

DigitValue ==
    [c \in {"0", "1", "2", "3", "4", "5", "6", "7", "8", "9"} |->
        CASE c = "0" -> 0 [] c = "1" -> 1 [] c = "2" -> 2 [] c = "3" -> 3 [] c = "4" -> 4
          [] c = "5" -> 5 [] c = "6" -> 6 [] c = "7" -> 7 [] c = "8" -> 8 [] c = "9" -> 9]

IsDigits(t) == t # <<>> /\ \A i \in 1..Len(t) : t[i] \in DOMAIN DigitValue

RECURSIVE DigitsValue(_)
DigitsValue(t) ==
    IF t = <<>> THEN 0
    ELSE 10 * DigitsValue(SubSeq(t, 1, Len(t) - 1)) + DigitValue[t[Len(t)]]

(* Number(text) for an unsigned decimal text, a sequence of characters:    *)
(* "" is 0, digits are an integer, digits "." digits a number with a       *)
(* fraction, anything else NaN (signs and exponents are not read)          *)
NumberOf(text) ==
    IF text = <<>> THEN Num(0)
    ELSE IF IsDigits(text) THEN Num(DigitsValue(text))
    ELSE LET dots == {k \in 1..Len(text) : text[k] = "."}
         IN IF /\ Cardinality(dots) = 1
               /\ \A k \in dots : /\ IsDigits(SubSeq(text, 1, k - 1))
                                  /\ IsDigits(SubSeq(text, k + 1, Len(text)))
            THEN LET k == CHOOSE d \in dots : TRUE
                     whole == DigitsValue(SubSeq(text, 1, k - 1))
                 IN IF DigitsValue(SubSeq(text, k + 1, Len(text))) = 0
                    THEN Num(whole) ELSE NonInteger(whole)
            ELSE NaN

IsNaN(x) == x.kind \in {"NaN", "undefined"}

(* x >= n, n an integer *)
AtLeast(x, n) ==
    CASE x.kind \in {"number", "noninteger"} -> x.val >= n
      [] x.kind = "Infinity" -> TRUE
      [] OTHER -> FALSE

(* !isNaN(value) && value >= 100, line 135 *)
Accepts(value) == ~IsNaN(value) /\ AtLeast(value, MinInterval)

(* what the user leaves in the input: "", "50", "100", "150.5", "500" *)
InputTexts ==
    {<<>>, <<"5", "0">>, <<"1", "0", "0">>, <<"1", "5", "0", ".", "5">>, <<"5", "0", "0">>}

(* a bug: the effect returns no cleanup, the replaced timer keeps running *)
ClearIntervalForgotten(scheduled) == scheduled

(* clearInterval(interval), line 201: the cleanup of the effect that is replaced *)
ClearInterval(scheduled) == {}

(* the delay setInterval (line 200) works with: the browser converts its   *)
(* argument to a 32-bit integer, dropping the fraction; a value that is    *)
(* not finite becomes 0                                                    *)
TimerDelay(x) ==
    CASE x.kind = "number" -> x
      [] x.kind = "noninteger" -> Num(x.val)
      [] OTHER -> Num(0)

(* handleIntervalChange (lines 133-138) called with e.target.value = text. *)
(* An accepted value that differs from the state re-renders the component  *)
(* and, updateInterval being the effect's dependency (line 202), runs the  *)
(* cleanup of line 201 and then the effect again (lines 199-200), all      *)
(* before the event returns.  A rejected value, or the value the state     *)
(* already holds, changes nothing.                                         *)
HandleIntervalChange(text) ==
    LET value == NumberOf(text)
    IN /\ phase = "running"
       /\ IF Accepts(value) /\ value # updateInterval
          THEN /\ issued < MaxRequests
               /\ updateInterval' = value
               /\ issued' = issued + 1
               /\ inflight' = inflight \cup {issued + 1}
               /\ timers' = LET kept == ClearInterval(timers)
                            IN kept \cup {[handle |-> issued + 1, period |-> TimerDelay(value)]}
               /\ UNCHANGED <<planes, planeTrails, phase, log>>
               /\ UNCHANGED ui
          ELSE UNCHANGED vars

(* {/* {updateFrequencyControl} */}, line 241: the element is built at     *)
(* lines 223-237 and left out of what the component renders                *)
ControlRendered == FALSE

(* a change event of the input of lines 227-233 *)
ChangeEvent == ControlRendered /\ \E text \in InputTexts : HandleIntervalChange(text)

Next ==
    \/ PollEffect
    \/ \E t \in timers : Tick(t)
    \/ \E id \in inflight : FetchRejects(id)
    \/ \E id \in inflight : JsonRejects(id)
    \/ \E id \in inflight : NotAnArray(id)
    \/ \E id \in inflight : \E data \in Batches : Update(id, data)
    \/ \E id \in inflight : Discard(id)

Spec == Init /\ [][Next]_vars

(* The component with {updateFrequencyControl} rendered, the feed cut down *)
(* to one aircraft.                                                        *)
ControlBatches == {<<>>, <<SnapA1>>, <<SnapA1Moved>>}

NextControl ==
    \/ PollEffect
    \/ \E t \in timers : Tick(t)
    \/ \E id \in inflight : FetchRejects(id)
    \/ \E id \in inflight : JsonRejects(id)
    \/ \E id \in inflight : NotAnArray(id)
    \/ \E id \in inflight : \E data \in ControlBatches : Update(id, data)
    \/ \E id \in inflight : Discard(id)
    \/ \E text \in InputTexts : HandleIntervalChange(text)

SpecControl == Init /\ [][NextControl]_vars

----------------------------------------------------------------------------
(* haversineDistance, lines 20-40, in fixed-point arithmetic: angles in    *)
(* radians and the values of sin, cos and atan as integers in units of     *)
(* 1/Scale, a in units of 1/Scale^2, the result in whole kilometres.  The  *)
(* series are those of small arguments: coordinates of one quadrant and    *)
(* distances of less than a quarter of the globe.                          *)

Scale == 10000
Pi == 31416          \* Math.PI, in units of 1/Scale
R == 6371            \* Earth radius in km, line 28

Mul(x, y) == (x * y) \div Scale

(* toRad, line 26, of an angle in tenths of a degree *)
ToRad(x) == (x * Pi) \div 1800

Sin(r) ==
    LET r2 == Mul(r, r)
        r3 == Mul(r2, r)
        r5 == Mul(Mul(r3, r), r)
    IN r - (r3 \div 6) + (r5 \div 120)

Cos(r) ==
    LET r2 == Mul(r, r)
        r4 == Mul(r2, r2)
    IN Scale - (r2 \div 2) + (r4 \div 24)

RECURSIVE SqrtIn(_, _, _)
SqrtIn(n, lo, hi) ==
    IF lo = hi THEN lo
    ELSE LET mid == (lo + hi + 1) \div 2
         IN IF mid * mid <= n THEN SqrtIn(n, mid, hi) ELSE SqrtIn(n, lo, mid - 1)

(* Math.sqrt of a value in units of 1/Scale^2, in units of 1/Scale *)
Sqrt(n) == SqrtIn(n, 0, 2 * Scale)

Atan(t) ==
    LET t2 == Mul(t, t)
        t3 == Mul(t2, t)
        t5 == Mul(t3, t2)
    IN t - (t3 \div 3) + (t5 \div 5)

(* Math.atan2(y, x) for y >= 0 and x >= 0, not both 0 *)
Atan2(y, x) ==
    IF y <= x THEN Atan((y * Scale) \div x)
    ELSE (Pi \div 2) - Atan((x * Scale) \div y)

(* a coordinate that is no finite number (Infinity, undefined) makes every *)
(* step of the arithmetic, and the result, NaN                             *)
haversineDistance(lat1, lon1, lat2, lon2) ==
    IF ~(IsFinite(lat1) /\ IsFinite(lon1) /\ IsFinite(lat2) /\ IsFinite(lon2)) THEN NaN
    ELSE LET dLat == ToRad(lat2.val - lat1.val)
             dLon == ToRad(lon2.val - lon1.val)
             sLat == Sin(dLat \div 2)
             sLon == Sin(dLon \div 2)
             a == sLat * sLat
                  + Mul(Mul(Cos(ToRad(lat1.val)), Cos(ToRad(lat2.val))), sLon) * sLon
             c == 2 * Atan2(Sqrt(a), Sqrt(Scale * Scale - a))
         IN Num((R * c) \div Scale)

----------------------------------------------------------------------------
(* The sidebar, lines 299-328, and the clicks *)

(* [latitude, longitude], line 144 *)
Location(lat, lon) == [kind |-> "location", val |-> <<lat, lon>>]

(* x - y of two numbers that are finite or NaN *)
Minus(x, y) == IF IsFinite(x) /\ IsFinite(y) THEN Num(x.val - y.val) ELSE NaN

(* the comparator of lines 302-312 *)
Compare(a, b, home) ==
    IF a.active /\ ~b.active THEN Num(-1)
    ELSE IF ~a.active /\ b.active THEN Num(1)
    ELSE IF home # Null
         THEN LET distA == haversineDistance(home.val[1], home.val[2], a.lat, a.lon)
                  distB == haversineDistance(home.val[1], home.val[2], b.lat, b.lon)
              IN Minus(distA, distB)
         ELSE Num(0)

(* Array.prototype.sort: stable; a NaN from the comparator counts as 0.    *)
(* The insertion sort the engines run on short arrays: an element moves    *)
(* left past the elements it compares less than.                           *)
RECURSIVE Insert(_, _, _)
Insert(sorted, x, home) ==
    LET n == Len(sorted)
    IN IF n = 0 THEN <<x>>
       ELSE LET v == Compare(x, sorted[n], home)
            IN IF IsFinite(v) /\ v.val < 0
               THEN Append(Insert(SubSeq(sorted, 1, n - 1), x, home), sorted[n])
               ELSE Append(sorted, x)

RECURSIVE Sort(_, _)
Sort(list, home) ==
    IF list = <<>> THEN <<>>
    ELSE Insert(Sort(SubSeq(list, 1, Len(list) - 1), home), list[Len(list)], home)

(* the list the sidebar renders, in order *)
Sidebar == Sort(planes, userLocation)

Whitespace == {" ", "\t", "\n", "\r"}

RECURSIVE TrimStart(_)
TrimStart(chars) ==
    IF chars # <<>> /\ chars[1] \in Whitespace THEN TrimStart(Tail(chars)) ELSE chars

RECURSIVE TrimEnd(_)
TrimEnd(chars) ==
    IF chars # <<>> /\ chars[Len(chars)] \in Whitespace
    THEN TrimEnd(SubSeq(chars, 1, Len(chars) - 1)) ELSE chars

(* a bug: trimStart in the place of trim *)
TrimStartOnly(chars) == TrimStart(chars)

(* String.prototype.trim *)
Trim(chars) == TrimEnd(TrimStart(chars))

(* the success callback of getCurrentPosition, lines 143-145; the request  *)
(* is made once, by the effect of lines 140-151 at mount                   *)
GeolocationSuccess(home) ==
    /\ phase = "running"
    /\ userLocation = Null
    /\ userLocation' = home
    /\ UNCHANGED <<planes, planeTrails, updateInterval, phase, timers, issued, inflight, log,
                   selectedFlight, lastClicked>>

(* the error callback, lines 146-148: a console message *)
GeolocationError ==
    /\ phase = "running"
    /\ userLocation = Null
    /\ UNCHANGED vars

(* click on the marker of planes[i], lines 271-274 *)
MarkerClick(i) ==
    /\ phase = "running"
    /\ i \in 1..Len(planes)
    /\ selectedFlight' = Str(Trim(planes[i].flight))
    /\ lastClicked' = Str(planes[i].flight)
    /\ UNCHANGED <<planes, planeTrails, updateInterval, phase, timers, issued, inflight, log,
                   userLocation>>

(* click on the k-th entry of the sidebar, lines 316-322; mapRef.current   *)
(* is the map MapContainer hands to its ref (line 248) when it mounts, and *)
(* setView moves the map only                                              *)
SidebarClick(k) ==
    /\ phase = "running"
    /\ k \in 1..Len(Sidebar)
    /\ selectedFlight' = Str(Trim(Sidebar[k].flight))
    /\ lastClicked' = Str(Sidebar[k].flight)
    /\ UNCHANGED <<planes, planeTrails, updateInterval, phase, timers, issued, inflight, log,
                   userLocation>>

(* The component with its map, sidebar and geolocation, on a feed of three *)
(* aircraft: two well-formed ones at (0, 1) and (0, 2), and the malformed. *)
SnapP1 == Snap("P1", <<"A", "A", "L", "1", " ">>, Num(0), Num(10), Num(20000), Num(180), Num(300))
SnapP2 == Snap("P2", <<"S", "W", "A", "2">>, Num(0), Num(20), Num(25000), Num(0), Num(350))

SidebarBatches ==
    {<<>>, <<SnapP1>>, <<SnapP2, SnapB2Malformed>>, <<SnapP2, SnapB2Malformed, SnapP1>>}

Homes == {Location(Num(0), Num(0))}

NextUI ==
    \/ PollEffect
    \/ \E t \in timers : Tick(t)
    \/ \E id \in inflight : FetchRejects(id)
    \/ \E id \in inflight : JsonRejects(id)
    \/ \E id \in inflight : NotAnArray(id)
    \/ \E id \in inflight : \E data \in SidebarBatches : Update(id, data)
    \/ \E id \in inflight : Discard(id)
    \/ \E home \in Homes : GeolocationSuccess(home)
    \/ GeolocationError
    \/ \E i \in 1..Len(planes) : MarkerClick(i)
    \/ \E k \in 1..Len(planes) : SidebarClick(k)

SpecUI == Init /\ [][NextUI]_vars

----------------------------------------------------------------------------
(* Vocabulary of the properties *)

Last == log[Len(log)]

TrackedHexes == {planes[i].hex : i \in 1..Len(planes)}

FeedHexes == {s.hex : s \in Snapshots}

IsPrefix(a, b) == Len(a) <= Len(b) /\ SubSeq(b, 1, Len(a)) = a

(* a snapshot with every numeric field present and finite coordinates *)
WellFormed(s) ==
    /\ \A f \in {"lat", "lon", "altitude", "track", "speed"} : s[f].kind # "undefined"
    /\ IsFinite(s.lat) /\ IsFinite(s.lon)

(* the last snapshot of data that carries hex h *)
LastSnapshot(data, h) ==
    data[CHOOSE i \in 1..Len(data) :
            /\ data[i].hex = h
            /\ \A j \in (i + 1)..Len(data) : data[j].hex # h]

(* how many snapshots of data carry hex h *)
Occurrences(data, h) == Cardinality({i \in 1..Len(data) : data[i].hex = h})

(* the tracked aircraft a snapshot stands for *)
Sighting(s) ==
    [hex |-> s.hex, flight |-> s.flight, lat |-> s.lat, lon |-> s.lon,
     altitude |-> s.altitude, track |-> s.track, speed |-> s.speed, active |-> TRUE]

RECURSIVE PointsFor(_, _)
PointsFor(h, data) ==
    IF data = <<>> THEN <<>>
    ELSE LET n == Len(data)
             rest == PointsFor(h, SubSeq(data, 1, n - 1))
         IN IF data[n].hex = h THEN Append(rest, <<data[n].lat, data[n].lon>>) ELSE rest

(* every snapshot applied so far, in the order of application *)
RECURSIVE Applied(_)
Applied(n) == IF n = 0 THEN <<>> ELSE Applied(n - 1) \o log[n].data

BatchesWith(h) == {j \in 1..Len(log) : h \in HexSet(log[j].data)}

----------------------------------------------------------------------------
\* C1: the hex identifiers of the tracked list are exactly those that occurred
\* in some applied batch: none is ever removed, none appears from nowhere.
C1_TrackedHexesAreThoseSeen ==
    TrackedHexes = UNION {HexSet(log[j].data) : j \in 1..Len(log)}

C1_Witness ==
    /\ Len(log) >= 2
    /\ Cardinality(TrackedHexes) = 2
    /\ \E h \in TrackedHexes : h \notin HexSet(Last.data)

\* C2: after a batch is applied, every hex of the batch is tracked with
\* active = true and with the fields of its (last) snapshot in the batch,
\* whatever had been stored for it before.
C2_BatchHexesActiveWithSnapshotFields ==
    log # <<>> =>
        \A h \in HexSet(Last.data) :
            /\ \E i \in 1..Len(planes) : planes[i].hex = h
            /\ \A i \in 1..Len(planes) :
                   planes[i].hex = h => planes[i] = Sighting(LastSnapshot(Last.data, h))

C2_Witness ==
    /\ log # <<>>
    /\ \E i \in 1..Len(Last.planes0) :
           /\ Last.planes0[i].hex \in HexSet(Last.data)
           /\ ~Last.planes0[i].active
           /\ Last.planes0[i].lat # LastSnapshot(Last.data, Last.planes0[i].hex).lat

\* C3: after a batch is applied, every aircraft tracked before it and absent
\* from it is still tracked, with active = false and its other fields as before.
C3_AbsentHexesInactiveFieldsKept ==
    log # <<>> =>
        \A i \in 1..Len(Last.planes0) :
            LET p == Last.planes0[i]
            IN p.hex \notin HexSet(Last.data) =>
                   /\ \E j \in 1..Len(planes) : planes[j].hex = p.hex
                   /\ \A j \in 1..Len(planes) :
                          planes[j].hex = p.hex => planes[j] = [p EXCEPT !.active = FALSE]

C3_Witness ==
    /\ log # <<>>
    /\ Last.data = <<>>
    /\ \E i \in 1..Len(Last.planes0) : Last.planes0[i].active

\* C4 as stated: the trail of every hex is as long as the number of applied
\* batches in which the hex appeared.
C4_TrailLengthIsBatchCount ==
    \A h \in FeedHexes : Len(TrailOf(planeTrails, h)) = Cardinality(BatchesWith(h))

\* C4 amended: the trail of every hex holds one point for every applied
\* snapshot of that hex, in the order of application; it is as long as the
\* number of batches with that hex when no applied batch repeats the hex.
C4_TrailIsPointsOfAppliedSnapshots ==
    \A h \in FeedHexes :
        /\ TrailOf(planeTrails, h) = PointsFor(h, Applied(Len(log)))
        /\ (\A j \in 1..Len(log) : Occurrences(log[j].data, h) <= 1)
               => Len(TrailOf(planeTrails, h)) = Cardinality(BatchesWith(h))

C4_Witness ==
    \E h \in DOMAIN planeTrails :
        /\ Cardinality(BatchesWith(h)) = 2
        /\ Len(planeTrails[h]) = 3
        /\ planeTrails[h][1] # planeTrails[h][3]

C6_OneEntryPerHex ==
    \A i, j \in 1..Len(planes) : planes[i].hex = planes[j].hex => i = j

C6_Witness ==
    /\ log # <<>>
    /\ \E h \in HexSet(Last.data) :
           /\ Occurrences(Last.data, h) = 2
           /\ \E i \in 1..Len(Last.planes0) : Last.planes0[i].hex = h

SameBatchTwice ==
    /\ Len(log) >= 2
    /\ log[Len(log) - 1].data = Last.data

\* C7 as stated: the same batch applied twice in a row leaves the tracked
\* list after the second application as it was after the first, and every
\* hex of the batch gains exactly two trail points over the two applications.
C7_SameBatchTwiceAddsTwoPoints ==
    SameBatchTwice =>
        /\ planes = Last.planes0
        /\ \A h \in HexSet(Last.data) :
               Len(planeTrails[h]) = Len(TrailOf(log[Len(log) - 1].trails0, h)) + 2

\* C7 amended: the same batch applied twice in a row leaves the tracked list
\* after the second application as it was after the first, the batch's hexes
\* active, and every hex of the batch gains two trail points for each of its
\* snapshots in the batch over the two applications.
C7_SameBatchTwiceIdempotentOnPlanes ==
    SameBatchTwice =>
        /\ planes = Last.planes0
        /\ \A i \in 1..Len(planes) : planes[i].hex \in HexSet(Last.data) => planes[i].active
        /\ \A h \in HexSet(Last.data) :
               Len(planeTrails[h]) =
                   Len(TrailOf(log[Len(log) - 1].trails0, h)) + 2 * Occurrences(Last.data, h)

C7_Witness ==
    /\ Len(log) >= 3
    /\ SameBatchTwice
    /\ Last.data # <<>>
    /\ \E i \in 1..Len(log[Len(log) - 1].planes0) :
           LET p == log[Len(log) - 1].planes0[i]
           IN /\ p.hex \in HexSet(Last.data)
              /\ p.lat # LastSnapshot(Last.data, p.hex).lat

(* a step in which a poll of the mounted component ends without a batch applied *)
PollFailed ==
    /\ phase = "running"
    /\ inflight' # inflight
    /\ inflight' \subseteq inflight
    /\ log' = log

\* C8: a poll that fails, for whatever reason, changes neither the tracked
\* list nor any trail and leaves the application running.
C8_FailedPollChangesNothing ==
    [][PollFailed => (planes' = planes /\ planeTrails' = planeTrails /\ phase' = "running")]_vars

\* C9: a batch with a malformed snapshot (a required numeric field missing, a
\* coordinate not finite) is rejected whole: tracked list and trails stay as
\* they were.
C9_MalformedBatchRejected ==
    (log # <<>> /\ \E i \in 1..Len(Last.data) : ~WellFormed(Last.data[i])) =>
        (planes = Last.planes0 /\ planeTrails = Last.trails0)

\* C10: a failed poll does not stop polling: after it the interval timer is
\* still scheduled.
C10_FailedPollKeepsTimer ==
    [][PollFailed => (timers' = timers /\ timers' # {})]_vars

\* C11: the first request is issued at session start, by the effect that
\* schedules the timer and before any tick; every later request is issued
\* by a tick of the scheduled timer, one request per tick.
C11_FirstPollAtStart ==
    /\ []((timers # {} \/ phase # "mounting") => issued >= 1)
    /\ [][issued' # issued =>
              /\ issued' = issued + 1
              /\ inflight' = inflight \cup {issued + 1}
              /\ issued = 0 => (phase = "mounting" /\ timers = {} /\ timers' # {})
              /\ issued > 0 => (timers # {} /\ timers' = timers)]_vars

C11_Witness ==
    /\ phase = "running"
    /\ issued >= 2
    /\ 1 \in inflight

C13_IntervalChangePossible ==
    phase = "running" => ENABLED ChangeEvent

PlanesAfter(j) == IF j = Len(log) THEN planes ELSE log[j + 1].planes0

TrailsAfter(j) == IF j = Len(log) THEN planeTrails ELSE log[j + 1].trails0

\* C17: responses are applied one by one in the order they arrive, whatever
\* the order the requests were issued in: after each response the active
\* aircraft are those of that response, with its fields, and every trail is
\* the trail before it followed by the points of that response.
C17_AppliedInArrivalOrder ==
    \A j \in 1..Len(log) :
        /\ \A i \in 1..Len(PlanesAfter(j)) :
               LET p == PlanesAfter(j)[i]
               IN /\ p.active = (p.hex \in HexSet(log[j].data))
                  /\ p.active => p = Sighting(LastSnapshot(log[j].data, p.hex))
        /\ \A h \in FeedHexes :
               TrailOf(TrailsAfter(j), h) =
                   TrailOf(log[j].trails0, h) \o PointsFor(h, log[j].data)

\* the request issued first is the last to arrive, and its response changes
\* the tracked list
C17_Witness ==
    /\ Len(log) >= 2
    /\ log[Len(log) - 1].id > Last.id
    /\ log[Len(log) - 1].data # <<>>
    /\ Last.data # <<>>
    /\ Last.data # log[Len(log) - 1].data
    /\ planes # Last.planes0

\* C18: when the batch applied last holds several snapshots of one hex, the
\* tracked list has exactly one entry for the hex, and it carries the
\* fields of the snapshot that comes last in the batch.
C18_DuplicateHexLastWins ==
    log # <<>> =>
        \A h \in FeedHexes :
            LET at == {k \in 1..Len(Last.data) : Last.data[k].hex = h}
            IN Cardinality(at) >= 2 =>
                   LET last == CHOOSE k \in at : \A m \in at : m <= k
                   IN /\ Cardinality({i \in 1..Len(planes) : planes[i].hex = h}) = 1
                      /\ \A i \in 1..Len(planes) :
                             planes[i].hex = h =>
                                 /\ planes[i].active
                                 /\ \A f \in {"flight", "lat", "lon", "altitude", "track", "speed"} :
                                        planes[i][f] = Last.data[last][f]

C18_Witness ==
    /\ log # <<>>
    /\ Last.data = <<SnapA1Moved, SnapA1>>
    /\ \E i \in 1..Len(planes) : planes[i].hex = "A1" /\ planes[i].lat = SnapA1.lat

\* C19: the hexes that have a trail are the tracked hexes, no trail is
\* empty, and the last point of the trail of every tracked aircraft, active
\* or not, is the (lat, lon) the tracked list holds for it.
C19_TrailsMatchTracked ==
    /\ DOMAIN planeTrails = TrackedHexes
    /\ \A i \in 1..Len(planes) :
           LET trail == TrailOf(planeTrails, planes[i].hex)
           IN /\ trail # <<>>
              /\ trail[Len(trail)] = <<planes[i].lat, planes[i].lon>>

C19_Witness ==
    /\ Cardinality(TrackedHexes) = 2
    /\ \E i \in 1..Len(planes) :
           /\ ~planes[i].active
           /\ Len(planeTrails[planes[i].hex]) >= 2
           /\ planeTrails[planes[i].hex][1] # <<planes[i].lat, planes[i].lon>>

(* the distance the sidebar sorts an aircraft by *)
DistanceFromHome(plane) ==
    haversineDistance(userLocation.val[1], userLocation.val[2], plane.lat, plane.lon)

\* C16: the sidebar lists every tracked aircraft exactly once, every active
\* aircraft before every inactive one, and, when the home location is
\* known, aircraft with the same active flag in ascending distance from
\* home (stated for the aircraft whose distance is a number).
C16_SidebarSorted ==
    /\ Len(Sidebar) = Len(planes)
    /\ \A p \in 1..Len(planes) :
           Cardinality({k \in 1..Len(Sidebar) : Sidebar[k] = planes[p]}) = 1
    /\ \A i, j \in 1..Len(Sidebar) :
           i < j =>
               /\ ~(~Sidebar[i].active /\ Sidebar[j].active)
               /\ (/\ userLocation # Null
                   /\ Sidebar[i].active = Sidebar[j].active
                   /\ IsFinite(DistanceFromHome(Sidebar[i]))
                   /\ IsFinite(DistanceFromHome(Sidebar[j])))
                      => DistanceFromHome(Sidebar[i]).val <= DistanceFromHome(Sidebar[j]).val

(* t is s without the white space at its two ends *)
IsTrimOf(t, s) ==
    /\ t # <<>> => (t[1] \notin Whitespace /\ t[Len(t)] \notin Whitespace)
    /\ \E lead \in 0..Len(s) :
           /\ lead + Len(t) <= Len(s)
           /\ SubSeq(s, lead + 1, lead + Len(t)) = t
           /\ \A k \in (1..lead) \cup ((lead + Len(t) + 1)..Len(s)) : s[k] \in Whitespace

\* C15: no flight is selected before the first click; after a click the
\* selected flight is the flight label of the aircraft clicked last, marker
\* or sidebar entry, without the white space at its ends; a step that polls
\* or applies a response leaves the selection alone, and a step that
\* changes the selection changes neither the tracked list nor a trail.
C15_SelectionIsLastClickTrimmed ==
    /\ [](IF lastClicked = Null THEN selectedFlight = Null
          ELSE /\ selectedFlight.kind = "string"
               /\ IsTrimOf(selectedFlight.val, lastClicked.val))
    /\ [][(issued' # issued \/ inflight' # inflight \/ log' # log \/ phase' # phase)
              => selectedFlight' = selectedFlight]_vars
    /\ [][(selectedFlight' # selectedFlight \/ lastClicked' # lastClicked)
              => (planes' = planes /\ planeTrails' = planeTrails)]_vars

\* the aircraft whose label ends with a blank was clicked last, it has gone
\* out of range since, and the malformed aircraft is tracked too
C15_Witness ==
    /\ lastClicked = Str(SnapP1.flight)
    /\ selectedFlight = Str(<<"A", "A", "L", "1">>)
    /\ Len(log) >= 2
    /\ \E i \in 1..Len(planes) : planes[i].hex = "B2"
    /\ \E i \in 1..Len(planes) : planes[i].hex = "P1" /\ ~planes[i].active

====
